---- MODULE Spec2Model ----
(***************************************************************************)
(* Model of library/ceph_crush.py: the Ansible module that creates Ceph    *)
(* CRUSH buckets and arranges them in a hierarchy.                         *)
(*                                                                         *)
(* One behaviour is a sequence of invocations of run_module() on the same  *)
(* module parameters (cluster, location, check_mode).  The external        *)
(* command executor (module.run_command) is nondeterministic: each call    *)
(* returns one of ExecResults.  `cmds` is the log of argument vectors      *)
(* handed to the executor in the current invocation.                       *)
(*                                                                         *)
(* Text is modelled as a sequence of string chunks: a message is a         *)
(* one-chunk sequence, a byte string is a sequence of one-character        *)
(* chunks, and '' / b'' is the empty sequence.                             *)
(***************************************************************************)
EXTENDS Integers, Sequences, FiniteSets, TLC

VARIABLES
    location,               \* module.params['location']
    cluster,                \* module.params['cluster']
    check_mode,             \* module.check_mode
    pc,                     \* position in run_module / create_and_move_buckets
    k,                      \* index of the for loop over crush_bucket_types
    previous_bucket_type,   \* local of create_and_move_buckets
    bound,                  \* whether the locals rc, cmd, out, err are assigned
    cmd, rc, out, err,      \* locals of create_and_move_buckets
    result,                 \* the result record of run_module
    signal,                 \* how the run ended
    cmds,                   \* argument vectors executed in this run, in order
    earlierFailure,         \* a command before the last one returned non-zero
    lastExit,               \* exit code the executor gave to the last command
    hasPrevRun,             \* the module was invoked before on the same input
    prevCmds,               \* cmds of the previous invocation
    prevFailure             \* the previous invocation saw a non-zero exit code

vars == << location, cluster, check_mode, pc, k, previous_bucket_type, bound,
           cmd, rc, out, err, result, signal, cmds, earlierFailure,
           lastExit, hasPrevRun, prevCmds, prevFailure >>

inputs == << location, cluster, check_mode >>
locals == << k, previous_bucket_type, bound, cmd, rc, out, err >>
history == << hasPrevRun, prevCmds, prevFailure >>

---------------------------------------------------------------------------
(* Bounds of the model *)

\* largest number of entries of a location mapping
MaxKeys == 3

\* keys a playbook may pass that are not CRUSH bucket types
UnknownKeys == {"osd"}

\* bucket names
Names == {"n1", "n2"}

\* cluster names ("ceph" is the default of the argument spec)
Clusters == {"ceph", "prod"}

\* what module.run_command may give back: exit code, stdout and stderr bytes
ExecResults ==
    { [rc |-> 0, out |-> <<"o", "k", "\n">>, err |-> <<>>],
      [rc |-> 1, out |-> <<>>,               err |-> <<"E", "\r", "\n">>],
      [rc |-> 2, out |-> <<"\n", "x">>,      err |-> <<"e", "\n", "\n">>] }

---------------------------------------------------------------------------
(* Constants of the program *)

crush_bucket_types ==
    << "host", "chassis", "rack", "row", "pdu", "pod", "room", "datacenter",
       "region", "root" >>

None == "None"

\* rc='' in the initial result record
RcEmpty == -1

MsgAtLeastTwo == << "You must specify at least 2 buckets." >>
MsgNoHost == << "You must specify a 'host' bucket." >>
MsgOthersInvalid ==
    << "It seems a 'host' bucket was specified but the other bucket types are invalid" >>
MsgNoValidType ==
    << "No valid CRUSH bucket type found, valid buckets can be found at http://docs.ceph.com/docs/master/rados/operations/crush-map/#crush-structure" >>
MsgNonZero == << "non-zero return code" >>

NoCmd == << >>

---------------------------------------------------------------------------
(* Pure helpers *)

Range(s) == { s[i] : i \in 1..Len(s) }

Levels == Range(crush_bucket_types)

AllKeys == Levels \cup UnknownKeys

\* every dict with at most MaxKeys entries
Locations ==
    UNION { [ ks -> Names ] :
            ks \in { s \in SUBSET AllKeys : Cardinality(s) <= MaxKeys } }

generate_cmd(cl, subcommand, bucket, bucket_type) ==
    << "ceph", "--cluster", cl, "osd", "crush", subcommand, bucket, bucket_type >>

\* bytes.rstrip(b"\r\n"): drop every trailing CR or LF
RECURSIVE rstrip(_)
rstrip(b) ==
    IF b # << >> /\ b[Len(b)] \in {"\r", "\n"}
    THEN rstrip(SubSeq(b, 1, Len(b) - 1))
    ELSE b

\* variant: the length check accepts a single entry
TooFewOffByOne(loc) == Cardinality(DOMAIN loc) < 1

\* variant: the length check counts only the recognized bucket types
TooFewRecognizedOnly(loc) == Cardinality(DOMAIN loc \cap Levels) < 2

\* len(location) < 2
TooFew(loc) == Cardinality(DOMAIN loc) < 2

\* "host" not in location.keys()
HostMissing(loc) == "host" \notin DOMAIN loc

\* variant: the loop forgets to leave out host
OthersInvalidCountingHost(loc) ==
    ~ \E i \in 1..Len(crush_bucket_types) :
          crush_bucket_types[i] \in DOMAIN loc

\* the loop that looks for a bucket type other than host; TRUE when
\* previous_bucket_type is still None after it
OthersInvalid(loc) ==
    ~ \E i \in 1..Len(crush_bucket_types) :
          /\ crush_bucket_types[i] \in DOMAIN loc
          /\ crush_bucket_types[i] # "host"

InitialResult ==
    [ changed |-> FALSE, stdout |-> << >>, stderr |-> << >>, rc |-> RcEmpty,
      cmd |-> NoCmd, msg |-> << >> ]

\* variant: the rejection leaves rc as it was
RejectedWithoutRc(message) ==
    [ InitialResult EXCEPT !.stdout = message ]

Rejected(message) ==
    [ InitialResult EXCEPT !.stdout = message, !.rc = 1 ]

AddBucketCmd(cl, loc, t) ==
    generate_cmd(cl, "add-bucket", loc[t], t)

\* variant: every move takes the host bucket as the child
MoveCmdFromHost(cl, loc, prev, t) ==
    generate_cmd(cl, "move", loc["host"], t \o "=" \o loc[t])

MoveCmd(cl, loc, prev, t) ==
    generate_cmd(cl, "move", loc[prev], t \o "=" \o loc[t])

BuildResult(c, r, o, e) ==
    [ changed |-> TRUE, stdout |-> rstrip(o), stderr |-> rstrip(e), rc |-> r,
      cmd |-> c, msg |-> << >> ]

---------------------------------------------------------------------------
(* State machine *)

FreshRun ==
    /\ pc = "start"
    /\ k = 1
    /\ previous_bucket_type = None
    /\ bound = FALSE
    /\ cmd = NoCmd
    /\ rc = 0
    /\ out = << >>
    /\ err = << >>
    /\ result = InitialResult
    /\ signal = "none"
    /\ cmds = << >>
    /\ earlierFailure = FALSE
    /\ lastExit = 0

Init ==
    /\ location \in Locations
    /\ cluster \in Clusters
    /\ check_mode \in BOOLEAN
    /\ FreshRun
    /\ hasPrevRun = FALSE
    /\ prevCmds = << >>
    /\ prevFailure = FALSE

\* if module.check_mode: return result
CheckModeReturn ==
    /\ pc = "start"
    /\ check_mode
    /\ pc' = "done"
    /\ signal' = "return"
    /\ UNCHANGED << inputs, locals, result, cmds, earlierFailure, lastExit,
                    history >>

Reject(message) ==
    /\ result' = Rejected(message)
    /\ signal' = "exit_json"
    /\ pc' = "done"
    /\ UNCHANGED << inputs, locals, cmds, earlierFailure, lastExit, history >>

RejectTooFew ==
    /\ pc = "start"
    /\ ~ check_mode
    /\ TooFew(location)
    /\ Reject(MsgAtLeastTwo)

\* variant: the host check does not wait for the length check
RejectNoHostFirst ==
    /\ pc = "start"
    /\ ~ check_mode
    /\ HostMissing(location)
    /\ Reject(MsgNoHost)

RejectNoHost ==
    /\ pc = "start"
    /\ ~ check_mode
    /\ ~ TooFew(location)
    /\ HostMissing(location)
    /\ Reject(MsgNoHost)

RejectOthersInvalid ==
    /\ pc = "start"
    /\ ~ check_mode
    /\ ~ TooFew(location)
    /\ ~ HostMissing(location)
    /\ OthersInvalid(location)
    /\ Reject(MsgOthersInvalid)

\* variant: check mode does not stop the run
EnterBuildInCheckMode ==
    /\ pc = "start"
    /\ ~ TooFew(location)
    /\ ~ HostMissing(location)
    /\ ~ OthersInvalid(location)
    /\ pc' = "loop"
    /\ k' = 1
    /\ previous_bucket_type' = None
    /\ UNCHANGED << inputs, bound, cmd, rc, out, err, result, signal, cmds,
                    earlierFailure, lastExit, history >>

\* validation passed: enter create_and_move_buckets
EnterBuild ==
    /\ pc = "start"
    /\ ~ check_mode
    /\ ~ TooFew(location)
    /\ ~ HostMissing(location)
    /\ ~ OthersInvalid(location)
    /\ pc' = "loop"
    /\ k' = 1
    /\ previous_bucket_type' = None
    /\ UNCHANGED << inputs, bound, cmd, rc, out, err, result, signal, cmds,
                    earlierFailure, lastExit, history >>

\* variant: a non-zero exit code is kept when a later command succeeds
ExecuteStickyRc(c, r) ==
    /\ cmds' = Append(cmds, c)
    /\ cmd' = c
    /\ rc' = IF bound /\ rc # 0 THEN rc ELSE r.rc
    /\ out' = r.out
    /\ err' = r.err
    /\ bound' = TRUE
    /\ earlierFailure' = (earlierFailure \/ lastExit # 0)
    /\ lastExit' = r.rc

\* module.run_command(c): the command is logged and the executor answers r
Execute(c, r) ==
    /\ cmds' = Append(cmds, c)
    /\ cmd' = c
    /\ rc' = r.rc
    /\ out' = r.out
    /\ err' = r.err
    /\ bound' = TRUE
    /\ earlierFailure' = (earlierFailure \/ lastExit # 0)
    /\ lastExit' = r.rc

\* a loop iteration whose bucket type is not a key of the location
SkipLevel ==
    /\ pc = "loop"
    /\ k <= Len(crush_bucket_types)
    /\ crush_bucket_types[k] \notin DOMAIN location
    /\ k' = k + 1
    /\ UNCHANGED << inputs, pc, previous_bucket_type, bound, cmd, rc, out, err,
                    result, signal, cmds, earlierFailure, lastExit, history >>

\* variant: the loop stops at the first add-bucket that fails
AddBucketAbortOnFailure ==
    /\ pc = "loop"
    /\ k <= Len(crush_bucket_types)
    /\ crush_bucket_types[k] \in DOMAIN location
    /\ \E r \in ExecResults :
          /\ Execute(AddBucketCmd(cluster, location, crush_bucket_types[k]), r)
          /\ IF r.rc # 0
             THEN /\ pc' = "loop"
                  /\ previous_bucket_type' = crush_bucket_types[k]
                  /\ k' = Len(crush_bucket_types) + 1
             ELSE IF previous_bucket_type # None
             THEN /\ pc' = "move"
                  /\ UNCHANGED << k, previous_bucket_type >>
             ELSE /\ pc' = "loop"
                  /\ previous_bucket_type' = crush_bucket_types[k]
                  /\ k' = k + 1
    /\ UNCHANGED << inputs, result, signal, history >>

\* add-bucket for a present bucket type
AddBucket ==
    /\ pc = "loop"
    /\ k <= Len(crush_bucket_types)
    /\ crush_bucket_types[k] \in DOMAIN location
    /\ \E r \in ExecResults :
          Execute(AddBucketCmd(cluster, location, crush_bucket_types[k]), r)
    /\ IF previous_bucket_type # None
       THEN /\ pc' = "move"
            /\ UNCHANGED << k, previous_bucket_type >>
       ELSE /\ pc' = "loop"
            /\ previous_bucket_type' = crush_bucket_types[k]
            /\ k' = k + 1
    /\ UNCHANGED << inputs, result, signal, history >>

\* move of the previous bucket under the one just added
Move ==
    /\ pc = "move"
    /\ \E r \in ExecResults :
          Execute(MoveCmd(cluster, location, previous_bucket_type,
                          crush_bucket_types[k]), r)
    /\ previous_bucket_type' = crush_bucket_types[k]
    /\ k' = k + 1
    /\ pc' = "loop"
    /\ UNCHANGED << inputs, result, signal, history >>

\* return rc, cmd, out, err, previous_bucket_type and the rest of run_module
Report ==
    /\ pc = "loop"
    /\ k > Len(crush_bucket_types)
    /\ pc' = "done"
    /\ IF ~ bound
       THEN \* rc is read before assignment: UnboundLocalError
            /\ signal' = "exception"
            /\ UNCHANGED result
       ELSE IF previous_bucket_type = None
       THEN /\ result' = [ BuildResult(cmd, rc, out, err)
                             EXCEPT !.stdout = MsgNoValidType, !.rc = 1 ]
            /\ signal' = "exit_json"
       ELSE IF rc # 0
       THEN /\ result' = [ BuildResult(cmd, rc, out, err)
                             EXCEPT !.msg = MsgNonZero ]
            /\ signal' = "fail_json"
       ELSE /\ result' = BuildResult(cmd, rc, out, err)
            /\ signal' = "exit_json"
    /\ UNCHANGED << inputs, locals, cmds, earlierFailure, lastExit, history >>

\* the playbook runs the task again with the same parameters
Rerun ==
    /\ pc = "done"
    /\ hasPrevRun' = TRUE
    /\ prevCmds' = cmds
    /\ prevFailure' = (earlierFailure \/ lastExit # 0)
    /\ pc' = "start"
    /\ k' = 1
    /\ previous_bucket_type' = None
    /\ bound' = FALSE
    /\ cmd' = NoCmd
    /\ rc' = 0
    /\ out' = << >>
    /\ err' = << >>
    /\ result' = InitialResult
    /\ signal' = "none"
    /\ cmds' = << >>
    /\ earlierFailure' = FALSE
    /\ lastExit' = 0
    /\ UNCHANGED inputs

Next ==
    \/ CheckModeReturn
    \/ RejectTooFew
    \/ RejectNoHost
    \/ RejectOthersInvalid
    \/ EnterBuild
    \/ SkipLevel
    \/ AddBucket
    \/ Move
    \/ Report
    \/ Rerun

Spec == Init /\ [][Next]_vars

---------------------------------------------------------------------------
(* Vocabulary of the properties *)

IsPrefix(s, t) == Len(s) <= Len(t) /\ s = SubSeq(t, 1, Len(s))

\* the recognized levels that are keys of loc, in the fixed order
PresentLevels(loc) ==
    SelectSeq(crush_bucket_types, LAMBDA t : t \in DOMAIN loc)

ExpectedAdd(cl, loc, t) ==
    << "ceph", "--cluster", cl, "osd", "crush", "add-bucket", loc[t], t >>

ExpectedMove(cl, loc, child, parent) ==
    << "ceph", "--cluster", cl, "osd", "crush", "move", loc[child],
       parent \o "=" \o loc[parent] >>

\* add(L1), then for i = 2..n: add(Li), move(L(i-1), Li)
ExpectedCmds(cl, loc) ==
    LET L == PresentLevels(loc)
        n == Len(L)
    IN  [ j \in 1..(2 * n - 1) |->
            IF j = 1 THEN ExpectedAdd(cl, loc, L[1])
            ELSE IF j % 2 = 0 THEN ExpectedAdd(cl, loc, L[(j \div 2) + 1])
            ELSE ExpectedMove(cl, loc, L[(j - 1) \div 2], L[(j + 1) \div 2]) ]

FewerThanTwo(loc) == Cardinality(DOMAIN loc) < 2
LacksHost(loc) == "host" \notin DOMAIN loc
NoOtherLevel(loc) == (DOMAIN loc \cap Levels) \subseteq {"host"}

Valid(loc) == ~ FewerThanTwo(loc) /\ ~ LacksHost(loc) /\ ~ NoOtherLevel(loc)

Finished == pc = "done"

\* the run got past the three validation checks
PassedValidation ==
    \/ pc \in {"loop", "move"}
    \/ pc = "done" /\ (result.changed \/ signal = "exception")

\* the greatest present level among the first n bucket types, None if none
LastPresentBefore(loc, n) ==
    LET present == { i \in 1..n : crush_bucket_types[i] \in DOMAIN loc }
    IN  IF present = {} THEN None
        ELSE crush_bucket_types[CHOOSE i \in present : \A j \in present : j <= i]

---------------------------------------------------------------------------
(* C1: for a mapping that passes validation, outside check mode, the       *)
(* commands handed to the executor are exactly add(L1), then add(Li),      *)
(* move(L(i-1), Li) for i = 2..n over the present levels L1 < ... < Ln in  *)
(* the fixed order: 2n-1 commands, each move linking two consecutive       *)
(* present levels.  While the run is under way the log is a prefix of it.  *)
C1_CommandSequence ==
    (~ check_mode /\ Valid(location)) =>
        /\ IsPrefix(cmds, ExpectedCmds(cluster, location))
        /\ Finished =>
              /\ cmds = ExpectedCmds(cluster, location)
              /\ Len(cmds) = 2 * Len(PresentLevels(location)) - 1

\* host, rack and root: the second move links rack under root directly
C1_Witness ==
    /\ Finished
    /\ ~ check_mode
    /\ DOMAIN location = {"host", "rack", "root"}
    /\ location["host"] # location["rack"]
    /\ Len(cmds) = 5
    /\ cmds[5] = << "ceph", "--cluster", cluster, "osd", "crush", "move",
                    location["rack"], "root=" \o location["root"] >>

(* C2: a mapping with fewer than 2 entries, or without host, or with no    *)
(* recognized level besides host never has a command executed outside      *)
(* check mode, and its run ends with rc = 1.                               *)
C2_RejectedRunsNothing ==
    (~ check_mode /\ ~ Valid(location)) =>
        /\ cmds = << >>
        /\ pc \in {"start", "done"}
        /\ Finished => (result.rc = 1 /\ signal = "exit_json")

C2_Witness ==
    /\ Finished
    /\ ~ check_mode
    /\ DOMAIN location = {"host"} \cup UnknownKeys
    /\ result.rc = 1
    /\ cmds = << >>

(* C3: the reason reported for a rejected mapping is that of the first     *)
(* check it fails, in the order length, host, other level; one reason      *)
(* only.                                                                   *)
C3_FirstFailingCheck ==
    (Finished /\ ~ check_mode /\ ~ Valid(location)) =>
        /\ result.stdout =
              IF FewerThanTwo(location) THEN MsgAtLeastTwo
              ELSE IF LacksHost(location) THEN MsgNoHost
              ELSE MsgOthersInvalid
        /\ Len(result.stdout) = 1
        /\ result.msg = << >>

\* the empty mapping fails all three checks and gets the first reason
C3_Witness ==
    /\ Finished
    /\ ~ check_mode
    /\ DOMAIN location = {}
    /\ result.stdout = MsgAtLeastTwo

(* C4 as stated: a mapping whose only entry is host is rejected with       *)
(* rc = 1 and the "host specified but the other bucket types are invalid"  *)
(* reason.                                                                 *)
C4_HostOnlyOthersInvalid ==
    (Finished /\ ~ check_mode /\ DOMAIN location = {"host"}) =>
        /\ result.rc = 1
        /\ result.stdout = MsgOthersInvalid

(* C4 amended: a mapping whose only entry is host is rejected with rc = 1  *)
(* and the "at least 2 buckets" reason, the length check coming first; the *)
(* "other bucket types are invalid" reason is reported exactly for the     *)
(* mappings with at least 2 entries, with host, and with no other          *)
(* recognized level.                                                       *)
C4_HostOnlyTooFew ==
    (Finished /\ ~ check_mode) =>
        /\ DOMAIN location = {"host"} =>
              /\ result.rc = 1
              /\ result.stdout = MsgAtLeastTwo
              /\ signal = "exit_json"
        /\ result.stdout = MsgOthersInvalid <=>
              /\ ~ FewerThanTwo(location)
              /\ ~ LacksHost(location)
              /\ NoOtherLevel(location)

C4_Witness ==
    /\ Finished
    /\ ~ check_mode
    /\ DOMAIN location = {"host"}
    /\ result.rc = 1
    /\ result.stdout = MsgAtLeastTwo

(* C5: after a run that passed validation, rc and cmd of the result are    *)
(* the exit code and the argument vector of the last command executed,     *)
(* and the run is signalled as a failure exactly when that exit code is    *)
(* non-zero, whatever the earlier commands returned.                       *)
C5_LastCommandReported ==
    (Finished /\ ~ check_mode /\ Valid(location)) =>
        /\ result.rc = lastExit
        /\ result.cmd = cmds[Len(cmds)]
        /\ signal \in {"exit_json", "fail_json"}
        /\ signal = "fail_json" <=> lastExit # 0

\* an earlier command failed, the last one succeeded: reported as success
C5_Witness ==
    /\ Finished
    /\ ~ check_mode
    /\ Valid(location)
    /\ earlierFailure
    /\ lastExit = 0
    /\ result.rc = 0
    /\ signal = "exit_json"
    /\ result.cmd = cmds[Len(cmds)]

(* C6: in check mode no command is ever executed, for any mapping, and     *)
(* the result has changed = false.                                         *)
C6_CheckModeRunsNothing ==
    check_mode =>
        /\ cmds = << >>
        /\ result.changed = FALSE
        /\ pc \in {"start", "done"}
        /\ Finished => (signal = "return" /\ result = InitialResult)

\* a mapping that would have been built
C6_Witness ==
    /\ Finished
    /\ check_mode
    /\ Valid(location)
    /\ signal = "return"
    /\ cmds = << >>

(* C7: the commands emitted do not depend on what the executor returns: a  *)
(* second run on the same cluster and mapping emits the same sequence as   *)
(* the first whatever the exit codes of either, no exit code ends the loop *)
(* early, and the previously processed level is the last present level     *)
(* the loop has passed whatever the exit codes were.                       *)
C7_SameCommandsWhateverExitCodes ==
    /\ hasPrevRun => IsPrefix(cmds, prevCmds)
    /\ (hasPrevRun /\ Finished) => cmds = prevCmds
    /\ pc = "loop" =>
          previous_bucket_type = LastPresentBefore(location, k - 1)
    /\ pc = "move" =>
          /\ previous_bucket_type = LastPresentBefore(location, k - 1)
          /\ previous_bucket_type # None
          /\ crush_bucket_types[k] \in DOMAIN location

\* a run with a failed command followed by a run without any
C7_Witness ==
    /\ hasPrevRun
    /\ Finished
    /\ prevFailure
    /\ ~ earlierFailure
    /\ lastExit = 0
    /\ Len(cmds) = 5
    /\ cmds = prevCmds

(* C8: every run on a failure path (a rejection, no valid level found, a   *)
(* non-zero exit code of any command of the build) ends with a result      *)
(* that carries a non-zero rc and an explanatory message.                  *)
C8_NoErrorSwallowed ==
    (/\ Finished
     /\ ~ check_mode
     /\ \/ ~ Valid(location)
        \/ earlierFailure
        \/ lastExit # 0) =>
        /\ result.rc # 0
        /\ result.rc # RcEmpty
        /\ \/ result.msg # << >>
           \/ result.stdout \in
                 {MsgAtLeastTwo, MsgNoHost, MsgOthersInvalid, MsgNoValidType}

(* C9: a run that passed the three validation checks executes at least     *)
(* three commands over at least two levels and leaves the loop with the    *)
(* previously processed level set and rc, cmd, out, err assigned, so the   *)
(* "No valid CRUSH bucket type found" outcome does not occur.              *)
C9_BuildNeverEmpty ==
    /\ (PassedValidation /\ pc = "loop" /\ k > Len(crush_bucket_types)) =>
          /\ bound
          /\ previous_bucket_type # None
          /\ Len(cmds) >= 3
    /\ (PassedValidation /\ Finished) =>
          /\ bound
          /\ previous_bucket_type # None
          /\ Len(cmds) >= 3
          /\ (Len(cmds) + 1) \div 2 >= 2
          /\ signal \in {"exit_json", "fail_json"}
          /\ result.stdout # MsgNoValidType
    /\ (Finished /\ ~ check_mode /\ ~ PassedValidation) =>
          (~ Valid(location) /\ cmds = << >>)

\* the smallest build: host and one other level
C9_Witness ==
    /\ Finished
    /\ PassedValidation
    /\ Cardinality(DOMAIN location) = 2
    /\ Len(cmds) = 3
    /\ previous_bucket_type \in Levels \ {"host"}
    /\ bound

RecognizedPart(loc) == [ t \in DOMAIN loc \cap Levels |-> loc[t] ]

(* C10: keys that are not recognized levels count for the length check     *)
(* and are otherwise ignored: every command names a recognized level that  *)
(* is a key of the mapping, with the mapping's value for it, and the       *)
(* commands of a finished build are those of the recognized part of the    *)
(* mapping alone.                                                          *)
C10_UnrecognizedKeysIgnored ==
    /\ \A i \in 1..Len(cmds) :
          \E t \in DOMAIN location \cap Levels :
             \/ /\ cmds[i][6] = "add-bucket"
                /\ cmds[i][7] = location[t]
                /\ cmds[i][8] = t
             \/ /\ cmds[i][6] = "move"
                /\ cmds[i][8] = t \o "=" \o location[t]
                /\ \E c \in DOMAIN location \cap Levels :
                      cmds[i][7] = location[c]
    /\ (Finished /\ PassedValidation) =>
          cmds = ExpectedCmds(cluster, RecognizedPart(location))
    /\ (Finished /\ ~ check_mode /\ "host" \in DOMAIN location
          /\ DOMAIN location \cap Levels # {"host"}
          /\ Cardinality(DOMAIN location) >= 2) => PassedValidation
    /\ (Finished /\ ~ check_mode /\ DOMAIN location \cap Levels = {"host"}
          /\ DOMAIN location \cap UnknownKeys # {}) =>
          result.stdout = MsgOthersInvalid

\* host, rack and an unrecognized key whose value no command carries
C10_Witness ==
    /\ Finished
    /\ PassedValidation
    /\ DOMAIN location = {"host", "rack"} \cup UnknownKeys
    /\ \A u \in UnknownKeys :
          /\ location[u] \notin {location["host"], location["rack"]}
          /\ \A i \in 1..Len(cmds) :
                /\ cmds[i][7] # location[u]
                /\ cmds[i][8] \notin {u, "rack=" \o location[u]}
    /\ Len(cmds) = 3

====
